---- MODULE Spec2Model ----
(***************************************************************************)
(* CodeLingo: the service functions generate_code_from_description and     *)
(* explain_code (src/app/openai_service.py) and the routes that call them  *)
(* (src/app/main.py).  A text is a sequence of one-character strings;      *)
(* every string operation of the code (in, split, replace, strip,          *)
(* startswith, lower) is computed character by character.                  *)
(***************************************************************************)
EXTENDS Integers, Sequences, FiniteSets, TLC

VARIABLES
    language,          \* the request's language (main.py:58-63)
    response_text,     \* response.choices[0].message.content
    nfrag,             \* number of fragments the completion holds so far
    pc,                \* "upstream": completion being produced; "parsed"
    code_part,         \* local code_part of the parser
    explanation_part,  \* local explanation_part of the parser
    strategy_used,     \* which branch of the if/elif/else chain ran
    kind,              \* "generate" or "explain": the route and service function
    OPENAI_API_KEY,    \* Config.OPENAI_API_KEY (config.py:57)
    user_id,           \* session.get('user_id')
    project_id,        \* the request's project_id
    e,                 \* the exception of the upstream call
    result,            \* the dict the service function returns
    prompt_logs,       \* the PromptLog entries handed to db.session.add
    sink,              \* whether the write of the log entry succeeded
    saved_prompts,     \* the saved_prompts table
    response,          \* the route's HTTP response
    _client,           \* the module global _client (openai_service.py:21)
    clients,           \* the OpenAI client objects constructed so far
    threads,           \* the request threads: position, locals, outcome
    users,             \* the users table (models.py:10-41)
    session,           \* the browser's Flask session
    projects,          \* the projects table (models.py:72-105)
    form,              \* whom and what the last such request was about
    reply              \* what the last route of auth.py or projects.py did

\* The variables of the request beyond the parser's.
svars == <<kind, OPENAI_API_KEY, user_id, project_id, e, result, prompt_logs,
           sink, saved_prompts, response>>

\* The variables of the parser and of the request's position.
pvars == <<language, response_text, nfrag, pc, code_part, explanation_part,
           strategy_used>>

\* The shared client and the threads that use it.
cvars == <<_client, clients, threads>>

\* The accounts, the session, the projects and the last reply.
avars == <<users, session, projects, form, reply>>

vars == <<pvars, svars, cvars, avars>>

\* Number of request threads running at once.
NThreads == 2

Threads == 1..NThreads

\* line 21, _client = None: no client is cached
NoClient == 0

\* A thread that has no request.
IdleThread ==
    [pc |-> "idle", op |-> "none", api_key |-> "", outcome |-> "none",
     client |-> NoClient]

\* The state of the client and the threads while one request is followed.
ClientIdle ==
    /\ _client = NoClient
    /\ clients = <<>>
    /\ threads = [t \in Threads |-> IdleThread]

\* Longest completion, in fragments.
MaxFrags == 5

\* A session without keys.
NoSession ==
    [user_id |-> "Absent", username |-> "Absent", permanent |-> "Absent",
     active_project_id |-> "Absent"]

\* No route of auth.py or projects.py has answered yet.
NoReply == [route |-> "none", ran |-> FALSE, status |-> 0, flash |-> "none"]

\* No request has been sent to auth.py or projects.py yet.
NoForm == [username |-> <<>>, password |-> <<>>, project_id |-> "None"]

\* The application state while no account and no project exists.
AppIdle ==
    /\ users = {}
    /\ session = NoSession
    /\ projects = {}
    /\ form = NoForm
    /\ reply = NoReply

----------------------------------------------------------------------------
(* Literals of the source *)

None == <<"None">>

NL == <<"\n">>

CODE_MARK == <<"C", "O", "D", "E", ":">>

EXPLANATION_MARK == <<"E", "X", "P", "L", "A", "N", "A", "T", "I", "O", "N", ":">>

\* The backquote character (a TLA+ string cannot hold one, so it is named).
BACKQUOTE == "BACKQUOTE"

FENCE == <<BACKQUOTE, BACKQUOTE, BACKQUOTE>>

PYTHON == <<"p", "y", "t", "h", "o", "n">>

JAVASCRIPT == <<"j", "a", "v", "a", "s", "c", "r", "i", "p", "t">>

HTML == <<"h", "t", "m", "l">>

CSS == <<"c", "s", "s">>

\* main.py:63, the languages the route lets through
Languages == {PYTHON, JAVASCRIPT, HTML}

code_keywords ==
    { <<"d", "e", "f", " ">>,
      <<"f", "u", "n", "c", "t", "i", "o", "n", " ">>,
      <<"c", "l", "a", "s", "s", " ">>,
      <<"i", "m", "p", "o", "r", "t", " ">>,
      <<"c", "o", "n", "s", "t", " ">>,
      <<"l", "e", "t", " ">>,
      <<"<", "h", "t", "m", "l">>,
      <<"<", "d", "i", "v">>,
      <<"<", "?", "p", "h", "p">> }

\* The three fixed explanation strings, kept as one-token texts.
FENCE_PLACEHOLDER == <<"See code above for implementation.">>

KEYWORD_PLACEHOLDER == <<"This code implements the requested functionality.">>

PLAIN_PLACEHOLDER == <<"See code above for details.">>

\* What str.strip() removes.
Whitespace == {" ", "\n", "\t"}

----------------------------------------------------------------------------
(* Python's string operations *)

StartsWith(s, p) ==
    /\ Len(p) <= Len(s)
    /\ \A k \in 1..Len(p) : s[k] = p[k]

\* sub occurs in s at position i
MatchAt(s, sub, i) ==
    /\ s[i] = sub[1]
    /\ \A k \in 2..Len(sub) : s[i + k - 1] = sub[k]

\* sub in s; the empty string is in every string
Contains(s, sub) ==
    \/ sub = <<>>
    \/ \E i \in 1..(Len(s) - Len(sub) + 1) : MatchAt(s, sub, i)

\* s.find(sub) + 1: the first position where sub occurs, 0 when it does not
Find(s, sub) ==
    LET hits == {i \in 1..(Len(s) - Len(sub) + 1) : MatchAt(s, sub, i)}
    IN  IF hits = {} THEN 0 ELSE CHOOSE i \in hits : \A j \in hits : i <= j

RECURSIVE Split(_, _)
\* s.split(sep): left to right, non-overlapping
Split(s, sep) ==
    LET i == Find(s, sep)
    IN  IF i = 0
        THEN <<s>>
        ELSE <<SubSeq(s, 1, i - 1)>> \o Split(SubSeq(s, i + Len(sep), Len(s)), sep)

\* s.split(sep, 1)
SplitOnce(s, sep) ==
    LET i == Find(s, sep)
    IN  IF i = 0
        THEN <<s>>
        ELSE <<SubSeq(s, 1, i - 1), SubSeq(s, i + Len(sep), Len(s))>>

RECURSIVE Remove(_, _)
\* s.replace(old, ""): every non-overlapping occurrence, in one pass
Remove(s, old) ==
    LET i == Find(s, old)
    IN  IF i = 0
        THEN s
        ELSE SubSeq(s, 1, i - 1) \o Remove(SubSeq(s, i + Len(old), Len(s)), old)

RECURSIVE LStrip(_)
LStrip(s) ==
    IF s # <<>> /\ Head(s) \in Whitespace THEN LStrip(Tail(s)) ELSE s

RECURSIVE RStrip(_)
RStrip(s) ==
    IF s # <<>> /\ s[Len(s)] \in Whitespace THEN RStrip(SubSeq(s, 1, Len(s) - 1)) ELSE s

\* s.strip()
Strip(s) == RStrip(LStrip(s))

Last(seq) == seq[Len(seq)]

----------------------------------------------------------------------------
(* The parser, openai_service.py:142-189 *)

\* HasMarkerPair without its test for EXPLANATION:
HasCodeMarkOnly(text) == Contains(text, CODE_MARK)

\* line 144
HasMarkerPair(text) == Contains(text, CODE_MARK) /\ Contains(text, EXPLANATION_MARK)

\* line 149
HasFence(text) == Contains(text, FENCE)

\* line 182
HasKeyword(text) == \E keyword \in code_keywords : Contains(text, keyword)

\* line 160
StartsWithLanguage(block, lang) ==
    \/ StartsWith(block, lang)
    \/ StartsWith(block, PYTHON)
    \/ StartsWith(block, JAVASCRIPT)
    \/ StartsWith(block, HTML)
    \/ StartsWith(block, CSS)

\* lines 161-165
TaggedBlockCode(block) ==
    LET lines == SplitOnce(block, NL)
    IN  IF Len(lines) > 1 THEN Strip(lines[2]) ELSE block

\* lines 167 and 177: x.split('\n', 1)[-1].strip() if '\n' in x else x.strip()
AfterFirstLine(x) ==
    IF Contains(x, NL) THEN Strip(Last(SplitOnce(x, NL))) ELSE Strip(x)

\* BlockStep without the "elif not code_part" guard of line 166
BlockStepLastWins(raw, lang, code) ==
    LET block == Strip(raw)
    IN  IF StartsWithLanguage(block, lang)
        THEN TaggedBlockCode(block)
        ELSE AfterFirstLine(block)

\* BlockStep keeping the code an earlier block gave
BlockStepFirstWins(raw, lang, code) ==
    LET block == Strip(raw)
    IN  IF code # <<>> THEN code
        ELSE IF StartsWithLanguage(block, lang)
        THEN TaggedBlockCode(block)
        ELSE AfterFirstLine(block)

\* lines 158-167, one turn of the loop
BlockStep(raw, lang, code) ==
    LET block == Strip(raw)
    IN  IF StartsWithLanguage(block, lang)
        THEN TaggedBlockCode(block)
        ELSE IF code = <<>> THEN AfterFirstLine(block) ELSE code

RECURSIVE BlockLoop(_, _, _, _)
\* lines 156-167: for i in range(1, len(code_blocks), 2); k is i + 1
BlockLoop(code_blocks, lang, k, code) ==
    IF k > Len(code_blocks)
    THEN code
    ELSE BlockLoop(code_blocks, lang, k + 2, BlockStep(code_blocks[k], lang, code))

\* FencedExplanation with ">= 2" for the "> 2" of line 170
FencedExplanationOffByOne(code_blocks) ==
    IF Len(code_blocks) >= 2 THEN Strip(Last(code_blocks)) ELSE FENCE_PLACEHOLDER

\* lines 170-173
FencedExplanation(code_blocks) ==
    IF Len(code_blocks) > 2 THEN Strip(Last(code_blocks)) ELSE FENCE_PLACEHOLDER

\* lines 176-177
FencedFallback(code_blocks, code) ==
    IF code = <<>> /\ Len(code_blocks) >= 3 THEN AfterFirstLine(code_blocks[2]) ELSE code

\* line 147: parts[1] raises IndexError when the split left one part
MarkerPartsMissing(text) == Len(Split(text, EXPLANATION_MARK)) < 2

\* lines 145-147
MarkerCode(text) == Strip(Remove(Split(text, EXPLANATION_MARK)[1], CODE_MARK))

MarkerExplanation(text) == Strip(Split(text, EXPLANATION_MARK)[2])

\* lines 150-177
FencedCode(text, lang) ==
    LET code_blocks == Split(text, FENCE)
    IN  FencedFallback(code_blocks, BlockLoop(code_blocks, lang, 2, <<>>))

\* KeywordCode trimming the text as the other strategies do
KeywordCodeStripped(text) == Strip(text)

\* lines 184-185
KeywordCode(text) == text

KeywordExplanation(text) == KEYWORD_PLACEHOLDER

\* lines 188-189
PlainCode(text) == text

PlainExplanation(text) == PLAIN_PLACEHOLDER

\* Strategy with the fence test ahead of the marker test
StrategyFenceFirst(text) ==
    IF HasFence(text) THEN "FencedCodeBlock"
    ELSE IF HasMarkerPair(text) THEN "MarkerTags"
    ELSE IF HasKeyword(text) THEN "KeywordHeuristic"
    ELSE "PlainText"

\* lines 144, 149, 182, 186: the branch taken
Strategy(text) ==
    IF HasMarkerPair(text) THEN "MarkerTags"
    ELSE IF HasFence(text) THEN "FencedCodeBlock"
    ELSE IF HasKeyword(text) THEN "KeywordHeuristic"
    ELSE "PlainText"

\* lines 142-189: the if/elif/else chain and the values it leaves in
\* code_part and explanation_part; raised when a statement of the chain
\* raises (the only subscript that is not guarded is parts[1], line 147)
ParseResult(text, lang) ==
    LET strategy == Strategy(text)
    IN  CASE strategy = "MarkerTags" ->
                IF MarkerPartsMissing(text)
                THEN [strategy_used |-> strategy,
                      code_part |-> None,
                      explanation_part |-> None,
                      raised |-> TRUE]
                ELSE [strategy_used |-> strategy,
                      code_part |-> MarkerCode(text),
                      explanation_part |-> MarkerExplanation(text),
                      raised |-> FALSE]
          [] strategy = "FencedCodeBlock" ->
                [strategy_used |-> strategy,
                 code_part |-> FencedCode(text, lang),
                 explanation_part |-> FencedExplanation(Split(text, FENCE)),
                 raised |-> FALSE]
          [] strategy = "KeywordHeuristic" ->
                [strategy_used |-> strategy,
                 code_part |-> KeywordCode(text),
                 explanation_part |-> KeywordExplanation(text),
                 raised |-> FALSE]
          [] OTHER ->
                [strategy_used |-> strategy,
                 code_part |-> PlainCode(text),
                 explanation_part |-> PlainExplanation(text),
                 raised |-> FALSE]

----------------------------------------------------------------------------
(* The error path of generate_code_from_description and explain_code:
   the exception of the upstream call, the values extracted from it and the
   category and display message chosen for it. *)

\* Bound on the number of words of an exception message.
MaxWords == 2

\* line 233, status_code = None: no status code was extracted
NoStatus == 0

StatusCodes == {401, 403, 418, 429}

\* The substrings the chain of lines 256-327 looks for.
KW_CONNECTION == <<"c", "o", "n", "n", "e", "c", "t", "i", "o", "n">>

KW_CONNECT == <<"c", "o", "n", "n", "e", "c", "t">>

KW_NETWORK == <<"n", "e", "t", "w", "o", "r", "k">>

KW_TIMEOUT == <<"t", "i", "m", "e", "o", "u", "t">>

KW_TIMED_OUT == <<"t", "i", "m", "e", "d", " ", "o", "u", "t">>

KW_429 == <<"4", "2", "9">>

INSUFFICIENT_QUOTA == <<"i", "n", "s", "u", "f", "f", "i", "c", "i", "e", "n", "t", "_", "q", "u", "o", "t", "a">>

KW_401 == <<"4", "0", "1">>

KW_UNAUTHORIZED == <<"u", "n", "a", "u", "t", "h", "o", "r", "i", "z", "e", "d">>

KW_INVALID_API_KEY == <<"i", "n", "v", "a", "l", "i", "d", " ", "a", "p", "i", " ", "k", "e", "y">>

KW_403 == <<"4", "0", "3">>

KW_FORBIDDEN == <<"f", "o", "r", "b", "i", "d", "d", "e", "n">>

KW_PERMISSION == <<"p", "e", "r", "m", "i", "s", "s", "i", "o", "n">>

\* An error type of the upstream service other than insufficient_quota.
RATE_LIMIT_EXCEEDED == <<"r", "a", "t", "e", "_", "l", "i", "m", "i", "t", "_", "e", "x", "c", "e", "e", "d", "e", "d">>

\* The words exception messages are made of: each keyword of the chain in
\* the letter case the upstream library and service use, and a message
\* that matches no row.
Words ==
    { <<"C", "o", "n", "n", "e", "c", "t">>,
      <<"n", "e", "t", "w", "o", "r", "k">>,
      <<"T", "i", "m", "e", "o", "u", "t">>,
      <<"t", "i", "m", "e", "d", " ", "o", "u", "t">>,
      <<"4", "2", "9">>,
      <<"i", "n", "s", "u", "f", "f", "i", "c", "i", "e", "n", "t", "_", "q", "u", "o", "t", "a">>,
      <<"4", "0", "1">>,
      <<"U", "n", "a", "u", "t", "h", "o", "r", "i", "z", "e", "d">>,
      <<"I", "n", "v", "a", "l", "i", "d", " ", "A", "P", "I", " ", "k", "e", "y">>,
      <<"4", "0", "3">>,
      <<"F", "o", "r", "b", "i", "d", "d", "e", "n">>,
      <<"p", "e", "r", "m", "i", "s", "s", "i", "o", "n">>,
      <<"B", "a", "d", " ", "r", "e", "q", "u", "e", "s", "t">> }

\* str.lower on the letters A-Z
UpperToLower ==
    "A" :> "a" @@ "B" :> "b" @@ "C" :> "c" @@ "D" :> "d" @@ "E" :> "e" @@ "F" :> "f" @@ "G" :> "g" @@ "H" :> "h" @@ "I" :> "i" @@ "J" :> "j" @@ "K" :> "k" @@ "L" :> "l" @@ "M" :> "m" @@ 
    "N" :> "n" @@ "O" :> "o" @@ "P" :> "p" @@ "Q" :> "q" @@ "R" :> "r" @@ "S" :> "s" @@ "T" :> "t" @@ "U" :> "u" @@ "V" :> "v" @@ "W" :> "w" @@ "X" :> "x" @@ "Y" :> "y" @@ "Z" :> "z"

\* lines 252 and 486: error_details.lower()
Lower(s) ==
    [i \in 1..Len(s) |->
        IF s[i] \in DOMAIN UpperToLower THEN UpperToLower[s[i]] ELSE s[i]]

\* The fixed texts of the display messages, each one token.
CONNECTION_MESSAGE == <<"Connection Error: Unable to connect to OpenAI API.">>

TIMEOUT_MESSAGE == <<"Request Timeout: The request to OpenAI API timed out.">>

QUOTA_HEAD == <<"OpenAI API Quota Exceeded ... Error details: ">>

QUOTA_TAIL == <<" For more information, visit: https://platform.openai.com/docs/guides/error-codes">>

RATE_LIMIT_HEAD == <<"Rate Limit Exceeded ... Error details: ">>

INVALID_KEY_HEAD == <<"Invalid API Key ... Error details: ">>

FORBIDDEN_MESSAGE == <<"Access Forbidden: Your API key doesn't have permission to access this resource.">>

GENERIC_HEAD == <<"OpenAI API Error, Error: ">>

GENERIC_TAIL == <<" Please check: ... For more information, visit: https://platform.openai.com/docs/guides/error-codes">>

\* What e.response.json() does: the response has no json attribute, the
\* call raises, or it returns a value of one of six shapes.
BodyShapes ==
    { "no_json", "raises", "not_dict", "no_error", "error_not_dict",
      "type_quota", "type_other", "type_missing" }

\* The exceptions an upstream call raises: a message, and a response object
\* or none; the response has a status code or none (NoStatus) and a body.
NoResponse(message) ==
    [message |-> message, response |-> "absent",
     status_code |-> NoStatus, body |-> "no_json"]

\* error_info.get('type', '') of lines 244-246 for a body that is a dict
\* whose error is a dict
ErrorInfoType(body) ==
    CASE body = "type_quota" -> INSUFFICIENT_QUOTA
      [] body = "type_other" -> RATE_LIMIT_EXCEEDED
      [] OTHER -> <<>>

\* ExtractErrorInfo letting the exception of e.response.json() escape
ExtractErrorInfoUnguarded(x) ==
    IF x.response = "absent"
    THEN [status_code |-> NoStatus, error_type |-> None, raised |-> FALSE]
    ELSE [status_code |-> x.status_code,
          error_type |->
              IF x.body \in {"type_quota", "type_other", "type_missing"}
              THEN ErrorInfoType(x.body)
              ELSE IF x.body = "no_error" THEN <<>> ELSE None,
          raised |-> x.body = "raises"]

\* lines 231-250: status_code and error_type taken from e.response; the
\* except of line 249 catches whatever the extraction raises, and
\* status_code, assigned before json() is called, keeps its value
ExtractErrorInfo(x) ==
    IF x.response = "absent"
    THEN [status_code |-> NoStatus, error_type |-> None, raised |-> FALSE]
    ELSE [status_code |-> x.status_code,
          error_type |->
              IF x.body \in {"type_quota", "type_other", "type_missing"}
              THEN ErrorInfoType(x.body)
              ELSE IF x.body = "no_error" THEN <<>> ELSE None,
          raised |-> FALSE]

\* line 256
IsConnection(error_lower) ==
    \/ Contains(error_lower, KW_CONNECTION)
    \/ Contains(error_lower, KW_CONNECT)
    \/ Contains(error_lower, KW_NETWORK)

\* line 262
IsTimeout(error_lower) ==
    \/ Contains(error_lower, KW_TIMEOUT)
    \/ Contains(error_lower, KW_TIMED_OUT)

\* line 268
Is429(error_details, status_code) ==
    status_code = 429 \/ Contains(error_details, KW_429)

\* IsInsufficientQuota reading the message only
IsInsufficientQuotaMessageOnly(error_lower, error_type) ==
    Contains(error_lower, INSUFFICIENT_QUOTA)

\* line 270
IsInsufficientQuota(error_lower, error_type) ==
    \/ error_type = INSUFFICIENT_QUOTA
    \/ Contains(error_lower, INSUFFICIENT_QUOTA)

\* line 298
Is401(error_details, error_lower, status_code) ==
    \/ status_code = 401
    \/ Contains(error_details, KW_401)
    \/ Contains(error_lower, KW_UNAUTHORIZED)
    \/ Contains(error_lower, KW_INVALID_API_KEY)

\* line 311
Is403(error_details, error_lower, status_code) ==
    \/ status_code = 403
    \/ Contains(error_details, KW_403)
    \/ Contains(error_lower, KW_FORBIDDEN)
    \/ Contains(error_lower, KW_PERMISSION)

\* GenericMessage interpolating the lower-cased message
GenericMessageLowered(error_details) ==
    GENERIC_HEAD \o Lower(error_details) \o GENERIC_TAIL

\* lines 320-327
GenericMessage(error_details) ==
    GENERIC_HEAD \o error_details \o GENERIC_TAIL

\* Classify with the Timeout row tested before the Connection row
ClassifyTimeoutFirst(error_details, status_code, error_type) ==
    LET error_lower == Lower(error_details)
    IN  IF IsTimeout(error_lower)
        THEN [category |-> "Timeout", error_message |-> TIMEOUT_MESSAGE]
        ELSE IF IsConnection(error_lower)
        THEN [category |-> "Connection", error_message |-> CONNECTION_MESSAGE]
        ELSE IF Is429(error_details, status_code)
        THEN IF IsInsufficientQuota(error_lower, error_type)
             THEN [category |-> "QuotaExceeded",
                   error_message |-> QUOTA_HEAD \o error_details \o QUOTA_TAIL]
             ELSE [category |-> "RateLimited",
                   error_message |-> RATE_LIMIT_HEAD \o error_details]
        ELSE IF Is401(error_details, error_lower, status_code)
        THEN [category |-> "InvalidApiKey",
              error_message |-> INVALID_KEY_HEAD \o error_details]
        ELSE IF Is403(error_details, error_lower, status_code)
        THEN [category |-> "Forbidden", error_message |-> FORBIDDEN_MESSAGE]
        ELSE [category |-> "Generic",
              error_message |-> GenericMessage(error_details)]

\* The chain with the raw message put into the Forbidden text
ClassifyForbiddenWithDetails(error_details, status_code, error_type) ==
    LET error_lower == Lower(error_details)
    IN  IF IsConnection(error_lower)
        THEN [category |-> "Connection", error_message |-> CONNECTION_MESSAGE]
        ELSE IF IsTimeout(error_lower)
        THEN [category |-> "Timeout", error_message |-> TIMEOUT_MESSAGE]
        ELSE IF Is429(error_details, status_code)
        THEN IF IsInsufficientQuota(error_lower, error_type)
             THEN [category |-> "QuotaExceeded",
                   error_message |-> QUOTA_HEAD \o error_details \o QUOTA_TAIL]
             ELSE [category |-> "RateLimited",
                   error_message |-> RATE_LIMIT_HEAD \o error_details]
        ELSE IF Is401(error_details, error_lower, status_code)
        THEN [category |-> "InvalidApiKey",
              error_message |-> INVALID_KEY_HEAD \o error_details]
        ELSE IF Is403(error_details, error_lower, status_code)
        THEN [category |-> "Forbidden",
              error_message |-> FORBIDDEN_MESSAGE \o error_details]
        ELSE [category |-> "Generic",
              error_message |-> GenericMessage(error_details)]

\* lines 252-327 of generate_code_from_description: error_lower, the
\* if/elif chain and the display message of the branch taken
Classify(error_details, status_code, error_type) ==
    LET error_lower == Lower(error_details)
    IN  IF IsConnection(error_lower)
        THEN [category |-> "Connection", error_message |-> CONNECTION_MESSAGE]
        ELSE IF IsTimeout(error_lower)
        THEN [category |-> "Timeout", error_message |-> TIMEOUT_MESSAGE]
        ELSE IF Is429(error_details, status_code)
        THEN IF IsInsufficientQuota(error_lower, error_type)
             THEN [category |-> "QuotaExceeded",
                   error_message |-> QUOTA_HEAD \o error_details \o QUOTA_TAIL]
             ELSE [category |-> "RateLimited",
                   error_message |-> RATE_LIMIT_HEAD \o error_details]
        ELSE IF Is401(error_details, error_lower, status_code)
        THEN [category |-> "InvalidApiKey",
              error_message |-> INVALID_KEY_HEAD \o error_details]
        ELSE IF Is403(error_details, error_lower, status_code)
        THEN [category |-> "Forbidden", error_message |-> FORBIDDEN_MESSAGE]
        ELSE [category |-> "Generic",
              error_message |-> GenericMessage(error_details)]

\* lines 474-493 of explain_code: the same extraction
ExplainExtractErrorInfo(x) ==
    IF x.response = "absent"
    THEN [status_code |-> NoStatus, error_type |-> None, raised |-> FALSE]
    ELSE [status_code |-> x.status_code,
          error_type |->
              IF x.body \in {"type_quota", "type_other", "type_missing"}
              THEN ErrorInfoType(x.body)
              ELSE IF x.body = "no_error" THEN <<>> ELSE None,
          raised |-> FALSE]

\* The chain of explain_code looking for its keywords in the message as
\* raised
ExplainClassifyCaseSensitive(error_details, status_code, error_type) ==
    IF IsConnection(error_details)
    THEN [category |-> "Connection", error_message |-> CONNECTION_MESSAGE]
    ELSE IF IsTimeout(error_details)
    THEN [category |-> "Timeout", error_message |-> TIMEOUT_MESSAGE]
    ELSE IF Is429(error_details, status_code)
    THEN IF IsInsufficientQuota(error_details, error_type)
         THEN [category |-> "QuotaExceeded",
               error_message |-> QUOTA_HEAD \o error_details \o QUOTA_TAIL]
         ELSE [category |-> "RateLimited",
               error_message |-> RATE_LIMIT_HEAD \o error_details]
    ELSE IF Is401(error_details, error_details, status_code)
    THEN [category |-> "InvalidApiKey",
          error_message |-> INVALID_KEY_HEAD \o error_details]
    ELSE IF Is403(error_details, error_details, status_code)
    THEN [category |-> "Forbidden", error_message |-> FORBIDDEN_MESSAGE]
    ELSE [category |-> "Generic",
          error_message |-> GenericMessage(error_details)]

\* lines 486-570 of explain_code: the copy of the chain, its conditions
\* written out
ExplainClassify(error_details, status_code, error_type) ==
    LET error_lower == Lower(error_details)
    IN  IF \/ Contains(error_lower, KW_CONNECTION)
           \/ Contains(error_lower, KW_CONNECT)
           \/ Contains(error_lower, KW_NETWORK)
        THEN [category |-> "Connection", error_message |-> CONNECTION_MESSAGE]
        ELSE IF \/ Contains(error_lower, KW_TIMEOUT)
                \/ Contains(error_lower, KW_TIMED_OUT)
        THEN [category |-> "Timeout", error_message |-> TIMEOUT_MESSAGE]
        ELSE IF status_code = 429 \/ Contains(error_details, KW_429)
        THEN IF \/ error_type = INSUFFICIENT_QUOTA
                \/ Contains(error_lower, INSUFFICIENT_QUOTA)
             THEN [category |-> "QuotaExceeded",
                   error_message |-> QUOTA_HEAD \o error_details \o QUOTA_TAIL]
             ELSE [category |-> "RateLimited",
                   error_message |-> RATE_LIMIT_HEAD \o error_details]
        ELSE IF \/ status_code = 401
                \/ Contains(error_details, KW_401)
                \/ Contains(error_lower, KW_UNAUTHORIZED)
                \/ Contains(error_lower, KW_INVALID_API_KEY)
        THEN [category |-> "InvalidApiKey",
              error_message |-> INVALID_KEY_HEAD \o error_details]
        ELSE IF \/ status_code = 403
                \/ Contains(error_details, KW_403)
                \/ Contains(error_lower, KW_FORBIDDEN)
                \/ Contains(error_lower, KW_PERMISSION)
        THEN [category |-> "Forbidden", error_message |-> FORBIDDEN_MESSAGE]
        ELSE [category |-> "Generic",
              error_message |-> GENERIC_HEAD \o error_details \o GENERIC_TAIL]

----------------------------------------------------------------------------
(* One request through a route of main.py and the service function it calls:
   generate_code -> generate_code_from_description, or
   explain_code_route -> explain_code. *)

\* A key of a dict that is not there.
Absent == <<"Absent">>

\* str(e) of the ValueError of get_client, lines 35-38
KEY_NOT_CONFIGURED == <<"OpenAI API key is not configured.">>

\* str(e) of the IndexError of a list subscript
INDEX_ERROR == <<"list index out of range">>

\* str(e) of the exception of a database write that failed
SINK_ERROR == <<"database write failed">>

\* main.py lines 123-129 and 303-307, the message of the outer handler
UNEXPECTED_ERROR == <<"An unexpected error occurred. Please try again.">>

\* werkzeug's generate_password_hash as User.set_password uses it
\* (models.py:43-52): the method and the digest of the password
generate_password_hash(password) == <<"pbkdf2:">> \o password

\* User.check_password (models.py:54-65)
check_password_hash(password_hash, password) ==
    password_hash = generate_password_hash(password)

\* The passwords of the forms: one of five characters, two that are long
\* enough.
PASSWORD_5 == <<"s", "e", "c", "r", "t">>

PASSWORD_6 == <<"s", "e", "c", "r", "e", "t">>

PASSWORD_7 == <<"s", "e", "c", "r", "e", "t", "2">>

\* The ids the database gives to the rows of users and of projects.
UserIds == <<"u1", "u2", "u3", "u4">>

ProjectIds == <<"p1", "p2", "p3", "p4">>

\* Two accounts and a project of each, as earlier requests left them.
SeedUsers ==
    { [id |-> "u1", username |-> <<"a">>, email |-> <<"x">>,
       password_hash |-> generate_password_hash(PASSWORD_6)],
      [id |-> "u2", username |-> <<"b">>, email |-> <<"y">>,
       password_hash |-> generate_password_hash(PASSWORD_7)] }

SeedUser(id) == CHOOSE u \in SeedUsers : u.id = id

SeedProjects ==
    { [id |-> "p1", user_id |-> "u1", name |-> <<"w">>],
      [id |-> "p2", user_id |-> "u2", name |-> <<"w">>] }

\* session.get(key)
SessionGet(s, key) == IF s[key] = "Absent" THEN "None" ELSE s[key]

\* auth.py lines 103-105 and 201-205: the keys a successful registration
\* or login sets
LoggedIn(s, user) ==
    [s EXCEPT !.user_id = user.id, !.username = user.username,
              !.permanent = "True"]

RECURSIVE Join(_)
\* str(e): the words of the message one after the other
Join(ws) == IF ws = <<>> THEN <<>> ELSE Head(ws) \o Join(Tail(ws))

Messages == { Join(ws) : ws \in UNION { [1..n -> Words] : n \in 0..MaxWords } }

\* Every exception of the upstream call with a message of up to MaxWords words.
Exceptions ==
    { NoResponse(m) : m \in Messages }
    \cup [message : Messages, response : {"present"},
          status_code : {NoStatus} \cup StatusCodes, body : BodyShapes]

\* One exception of each kind, for the requests followed through the route.
ServiceExceptions ==
    { NoResponse(<<"C", "o", "n", "n", "e", "c", "t">>),
      NoResponse(<<"t", "i", "m", "e", "d", " ", "o", "u", "t">>),
      NoResponse(<<"B", "a", "d", " ", "r", "e", "q", "u", "e", "s", "t">>),
      [message |-> KW_429, response |-> "present",
       status_code |-> 429, body |-> "type_quota"],
      [message |-> KW_429, response |-> "present",
       status_code |-> 429, body |-> "type_other"],
      [message |-> KW_401, response |-> "present",
       status_code |-> 401, body |-> "not_dict"],
      [message |-> KW_403, response |-> "present",
       status_code |-> 403, body |-> "no_error"],
      [message |-> <<"B", "a", "d", " ", "r", "e", "q", "u", "e", "s", "t">>,
       response |-> "present", status_code |-> 418, body |-> "raises"] }

\* The completions of the requests followed through the route.
Completions ==
    { <<>>,
      CODE_MARK \o <<"x">> \o EXPLANATION_MARK \o <<"y">>,
      FENCE \o PYTHON \o NL \o <<"x">> \o FENCE \o <<"y">>,
      <<"d", "e", "f", " ">>,
      <<"h", "i">> }

\* No exception was raised.
NoException ==
    [message |-> <<>>, response |-> "none",
     status_code |-> NoStatus, body |-> "no_json"]

NoResult ==
    [code |-> Absent, explanation |-> Absent, error |-> Absent, success |-> FALSE]

NoHttpResponse ==
    [status |-> 0, success |-> FALSE, code |-> Absent,
     explanation |-> Absent, error |-> Absent]

\* The state of the service while the parser alone is followed.
ServiceIdle ==
    /\ kind = "none"
    /\ OPENAI_API_KEY = ""
    /\ user_id = "None"
    /\ project_id = "None"
    /\ e = NoException
    /\ result = NoResult
    /\ prompt_logs = <<>>
    /\ sink = "unused"
    /\ saved_prompts = <<>>
    /\ response = NoHttpResponse

\* lines 100-108 and 395-402: the result when get_client raised ValueError
KeyMissingResult(k) ==
    IF k = "generate"
    THEN [code |-> None, explanation |-> KEY_NOT_CONFIGURED,
          error |-> Absent, success |-> FALSE]
    ELSE [code |-> Absent, explanation |-> KEY_NOT_CONFIGURED,
          error |-> Absent, success |-> FALSE]

\* lines 214-218: the dict generate_code_from_description returns
GenerateResult(parsed) ==
    [code |-> parsed.code_part, explanation |-> parsed.explanation_part,
     error |-> Absent, success |-> TRUE]

\* ExplainResult with the completion also returned as code
ExplainResultWithCode(explanation) ==
    [code |-> explanation, explanation |-> explanation,
     error |-> Absent, success |-> TRUE]

\* lines 458-461: the dict explain_code returns
ExplainResult(explanation) ==
    [code |-> Absent, explanation |-> explanation,
     error |-> Absent, success |-> TRUE]

\* lines 351-356 and 594-598: the dict returned on the error path
ErrorResult(k, error_message) ==
    [code |-> IF k = "generate" THEN None ELSE Absent,
     explanation |-> error_message, error |-> error_message,
     success |-> FALSE]

\* lines 193-205: the PromptLog of a generation
GenerateLogEntry(uid, text, parsed) ==
    [user_id |-> uid, operation_type |-> "generate", response_text |-> text,
     output_code |-> parsed.code_part, explanation |-> parsed.explanation_part,
     success |-> TRUE, error_message |-> None]

\* lines 437-449: the PromptLog of an explanation
ExplainLogEntry(uid, explanation) ==
    [user_id |-> uid, operation_type |-> "explain", response_text |-> explanation,
     output_code |-> None, explanation |-> explanation,
     success |-> TRUE, error_message |-> None]

\* lines 333-343 and 576-586: the PromptLog of a failure
ErrorLogEntry(uid, k, error_message) ==
    [user_id |-> uid, operation_type |-> k, response_text |-> None,
     output_code |-> None, explanation |-> None,
     success |-> FALSE, error_message |-> error_message]

\* AfterLogFailure with the success path's write outside a try
AfterLogFailureUnguarded(path) ==
    IF path = "success" THEN "raise" ELSE "continue"

\* lines 208-210, 346-348, 452-454, 589-591: the except around the write
\* logs the failure, rolls back, and execution continues at the return
AfterLogFailure(path) == "continue"

\* main.py lines 96-103: the SavedPrompt of a generation
GenerateSavedPrompt(pid, res) ==
    [project_id |-> pid, input_type |-> "description",
     output_code |-> IF res.code = Absent THEN <<>> ELSE res.code,
     explanation |-> IF res.explanation = Absent THEN <<>> ELSE res.explanation]

\* main.py lines 277-284: the SavedPrompt of an explanation
ExplainSavedPrompt(pid, res) ==
    [project_id |-> pid, input_type |-> "code",
     output_code |-> None,
     explanation |-> IF res.explanation = Absent THEN <<>> ELSE res.explanation]

\* AfterSaveFailure with the save outside a try
AfterSaveFailureUnguarded(k) == "raise"

\* main.py lines 105-109 and 286-289: the except around the save prints
\* the failure, rolls back, and execution continues at the response
AfterSaveFailure(k) == "continue"

\* OwnsProject looking for the project under its id alone
OwnsProjectOfAnyone(uid, pid) ==
    /\ uid # "None"
    /\ \E p \in projects : p.id = pid

\* main.py line 90 and 271: Project.query.filter_by(id=project_id,
\* user_id=user_id).first() found a project
OwnsProject(uid, pid) ==
    /\ uid # "None"
    /\ \E p \in projects : p.id = pid /\ p.user_id = uid

\* FailureResponse reading the result's error key only
FailureResponseErrorOnly(res) ==
    [status |-> 500, success |-> FALSE, code |-> Absent, explanation |-> Absent,
     error |-> res.error]

\* main.py lines 80-86 and 261-267: the 500 response to a failed result
FailureResponse(res) ==
    [status |-> 500, success |-> FALSE, code |-> Absent, explanation |-> Absent,
     error |-> IF res.error \in {Absent, <<>>} THEN res.explanation
               ELSE res.error]

\* main.py lines 116-120 and 298-301: the response to a successful result
SuccessResponse(k, res) ==
    [status |-> 200, success |-> TRUE,
     code |-> IF k = "generate"
              THEN (IF res.code = Absent THEN <<>> ELSE res.code)
              ELSE Absent,
     explanation |-> IF res.explanation = Absent THEN <<>> ELSE res.explanation,
     error |-> Absent]

----------------------------------------------------------------------------
(* The state machine: one Generate request *)

\* What the upstream model may emit, piece by piece: the two markers, the
\* fence, a language tag, a line break, a keyword, and a word that is no
\* keyword (it differs from one in case only).
Fragments ==
    { CODE_MARK, EXPLANATION_MARK, FENCE, PYTHON, NL,
      <<"d", "e", "f", " ">>, <<"D", "e", "f", " ">> }

Init ==
    /\ language \in Languages
    /\ response_text = <<>>
    /\ nfrag = 0
    /\ pc = "upstream"
    /\ code_part = None
    /\ explanation_part = None
    /\ strategy_used = "none"
    /\ ServiceIdle
    /\ ClientIdle
    /\ AppIdle

\* client.chat.completions.create(...) producing the completion, lines 124-132
UpstreamEmit ==
    /\ pc = "upstream"
    /\ nfrag < MaxFrags
    /\ \E f \in Fragments : response_text' = response_text \o f
    /\ nfrag' = nfrag + 1
    /\ UNCHANGED <<language, pc, code_part, explanation_part, strategy_used>>
    /\ UNCHANGED <<svars, cvars, avars>>

\* lines 142-189; a statement that raises leaves for the handler of line 220
ParseResponse ==
    /\ pc = "upstream"
    /\ \E parsed \in {ParseResult(response_text, language)} :
           /\ pc' = IF parsed.raised THEN "raised" ELSE "parsed"
           /\ strategy_used' = parsed.strategy_used
           /\ code_part' = parsed.code_part
           /\ explanation_part' = parsed.explanation_part
    /\ UNCHANGED <<language, response_text, nfrag>>
    /\ UNCHANGED <<svars, cvars, avars>>

Next == UpstreamEmit \/ ParseResponse

Spec == Init /\ [][Next]_vars

\* Completions that hold pieces of the two markers beside the markers.
PieceFragments ==
    { CODE_MARK, EXPLANATION_MARK, <<"C", "O", "D">>, <<"E", ":">>,
      <<"E", "X", "P", "L", "A", "N">>, <<"A", "T", "I", "O", "N", ":">> }

\* lines 124-132, the completion drawn from PieceFragments
UpstreamEmitPieces ==
    /\ pc = "upstream"
    /\ nfrag < MaxFrags
    /\ \E f \in PieceFragments : response_text' = response_text \o f
    /\ nfrag' = nfrag + 1
    /\ UNCHANGED <<language, pc, code_part, explanation_part, strategy_used>>
    /\ UNCHANGED <<svars, cvars, avars>>

NextPieces == UpstreamEmitPieces \/ ParseResponse

SpecPieces == Init /\ [][NextPieces]_vars

\* Completions made of whole fenced blocks: tagged ones of different
\* content, an untagged one, and the delimiter.
BlockFragments ==
    { FENCE, PYTHON \o NL \o <<"a">>, HTML \o NL \o <<"b">>, CSS \o <<"c">>,
      <<"d">> }

\* lines 124-132, the completion drawn from BlockFragments
UpstreamEmitBlocks ==
    /\ pc = "upstream"
    /\ nfrag < MaxFrags
    /\ \E f \in BlockFragments : response_text' = response_text \o f
    /\ nfrag' = nfrag + 1
    /\ UNCHANGED <<language, pc, code_part, explanation_part, strategy_used>>
    /\ UNCHANGED <<svars, cvars, avars>>

NextBlocks == UpstreamEmitBlocks \/ ParseResponse

SpecBlocks == Init /\ [][NextBlocks]_vars

----------------------------------------------------------------------------
(* The state machine: one request through a route and its service function *)

InitService ==
    /\ language \in Languages
    /\ response_text = <<>>
    /\ nfrag = 0
    /\ pc = "request"
    /\ code_part = None
    /\ explanation_part = None
    /\ strategy_used = "none"
    /\ kind \in {"generate", "explain"}
    /\ OPENAI_API_KEY \in {"", "sk-1"}
    /\ users = SeedUsers
    /\ projects = SeedProjects
    /\ session \in {NoSession, LoggedIn(NoSession, SeedUser("u1"))}
    /\ user_id = SessionGet(session, "user_id")
    /\ project_id \in {"None", "p1", "p2", "p3"}
    /\ form = NoForm
    /\ reply = NoReply
    /\ e = NoException
    /\ result = NoResult
    /\ prompt_logs = <<>>
    /\ sink = "unused"
    /\ saved_prompts = <<>>
    /\ response = NoHttpResponse
    /\ ClientIdle

\* main.py lines 52-77 (or 233-258) and the service function up to the
\* upstream call, lines 76-122 (or 376-415): get_client raises ValueError
\* when no key is configured, and the function returns at once
CallService ==
    /\ pc = "request"
    /\ IF OPENAI_API_KEY = ""
       THEN /\ result' = KeyMissingResult(kind)
            /\ pc' = "returned"
       ELSE /\ pc' = "calling"
            /\ UNCHANGED result
    /\ UNCHANGED <<language, response_text, nfrag, code_part, explanation_part,
                   strategy_used, kind, OPENAI_API_KEY, user_id, project_id, e,
                   prompt_logs, sink, saved_prompts, response>>
    /\ UNCHANGED <<cvars, avars>>

\* lines 124-132 (or 418-424): the upstream call returns a completion
UpstreamReturn ==
    /\ pc = "calling"
    /\ \E c \in Completions : response_text' = c
    /\ pc' = "completion"
    /\ UNCHANGED <<language, nfrag, code_part, explanation_part, strategy_used>>
    /\ UNCHANGED <<svars, cvars, avars>>

\* lines 124-129 (or 418-423): the upstream call raises
UpstreamRaise ==
    /\ pc = "calling"
    /\ \E x \in ServiceExceptions : e' = x
    /\ pc' = "exception"
    /\ UNCHANGED <<language, response_text, nfrag, code_part, explanation_part,
                   strategy_used, kind, OPENAI_API_KEY, user_id, project_id,
                   result, prompt_logs, sink, saved_prompts, response>>
    /\ UNCHANGED <<cvars, avars>>

\* lines 124-129 (or 418-423): the upstream call raises, any exception
UpstreamRaiseAny ==
    /\ pc = "calling"
    /\ \E x \in Exceptions : e' = x
    /\ pc' = "exception"
    /\ UNCHANGED <<language, response_text, nfrag, code_part, explanation_part,
                   strategy_used, kind, OPENAI_API_KEY, user_id, project_id,
                   result, prompt_logs, sink, saved_prompts, response>>
    /\ UNCHANGED <<cvars, avars>>

\* generate_code_from_description lines 132-218 and explain_code lines
\* 424-461: the completion is parsed (generate), the log entry is handed to
\* the database, whose write succeeds or fails, and the result is returned.
\* An exception inside the try leaves for the handler of line 220 (or 463).
HandleCompletion ==
    /\ pc = "completion"
    /\ \E parsed \in {ParseResult(response_text, language)} :
           IF kind = "generate" /\ parsed.raised
           THEN /\ e' = NoResponse(INDEX_ERROR)
                /\ pc' = "exception"
                /\ UNCHANGED <<code_part, explanation_part, strategy_used,
                               result, prompt_logs, sink>>
           ELSE /\ IF kind = "generate"
                   THEN /\ strategy_used' = parsed.strategy_used
                        /\ code_part' = parsed.code_part
                        /\ explanation_part' = parsed.explanation_part
                   ELSE UNCHANGED <<code_part, explanation_part, strategy_used>>
                /\ prompt_logs' =
                       Append(prompt_logs,
                              IF kind = "generate"
                              THEN GenerateLogEntry(user_id, response_text, parsed)
                              ELSE ExplainLogEntry(user_id, response_text))
                /\ \E written \in BOOLEAN :
                       /\ sink' = IF written THEN "written" ELSE "failed"
                       /\ IF written \/ AfterLogFailure("success") = "continue"
                          THEN /\ result' = IF kind = "generate"
                                            THEN GenerateResult(parsed)
                                            ELSE ExplainResult(response_text)
                               /\ pc' = "returned"
                               /\ UNCHANGED e
                          ELSE /\ e' = NoResponse(SINK_ERROR)
                               /\ pc' = "exception"
                               /\ UNCHANGED result
    /\ UNCHANGED <<language, response_text, nfrag, kind, OPENAI_API_KEY,
                   user_id, project_id, saved_prompts, response>>
    /\ UNCHANGED <<cvars, avars>>

\* The category and display message the handler of kind k chooses for x.
Classified(k, x) ==
    IF k = "generate"
    THEN LET info == ExtractErrorInfo(x)
         IN  Classify(x.message, info.status_code, info.error_type)
    ELSE LET info == ExplainExtractErrorInfo(x)
         IN  ExplainClassify(x.message, info.status_code, info.error_type)

\* Whether the extraction of the handler of kind k lets an exception escape.
ExtractionRaised(k, x) ==
    IF k = "generate" THEN ExtractErrorInfo(x).raised
    ELSE ExplainExtractErrorInfo(x).raised

\* generate_code_from_description lines 220-356 and explain_code lines
\* 463-598: the exception is classified, the log entry is handed to the
\* database, whose write succeeds or fails, and the error result is returned
HandleError ==
    /\ pc = "exception"
    /\ IF ExtractionRaised(kind, e)
       THEN /\ pc' = "propagated"
            /\ UNCHANGED <<result, prompt_logs, sink>>
       ELSE \E error_message \in {Classified(kind, e).error_message} :
                /\ prompt_logs' =
                       Append(prompt_logs,
                              ErrorLogEntry(user_id, kind, error_message))
                /\ \E written \in BOOLEAN :
                       /\ sink' = IF written THEN "written" ELSE "failed"
                       /\ IF written \/ AfterLogFailure("error") = "continue"
                          THEN /\ result' = ErrorResult(kind, error_message)
                               /\ pc' = "returned"
                          ELSE /\ pc' = "propagated"
                               /\ UNCHANGED result
    /\ UNCHANGED <<language, response_text, nfrag, code_part, explanation_part,
                   strategy_used, kind, OPENAI_API_KEY, user_id, project_id, e,
                   saved_prompts, response>>
    /\ UNCHANGED <<cvars, avars>>

\* main.py lines 79-130 (generate_code) and 260-308 (explain_code_route):
\* a failed result is answered 500; a successful one is saved when the
\* session's user owns the project named, the save succeeding or failing,
\* and answered 200; an exception of the service is answered by the outer
\* handler
RouteRespond ==
    /\ pc \in {"returned", "propagated"}
    /\ pc' = "responded"
    /\ IF pc = "propagated"
       THEN /\ response' = [status |-> 500, success |-> FALSE, code |-> Absent,
                            explanation |-> Absent, error |-> UNEXPECTED_ERROR]
            /\ UNCHANGED saved_prompts
       ELSE IF ~result.success
       THEN /\ response' = FailureResponse(result)
            /\ UNCHANGED saved_prompts
       ELSE IF project_id # "None" /\ OwnsProject(user_id, project_id)
       THEN \E saved \in BOOLEAN :
               /\ saved_prompts' =
                      IF saved
                      THEN Append(saved_prompts,
                                  IF kind = "generate"
                                  THEN GenerateSavedPrompt(project_id, result)
                                  ELSE ExplainSavedPrompt(project_id, result))
                      ELSE saved_prompts
               /\ response' =
                      IF saved \/ AfterSaveFailure(kind) = "continue"
                      THEN SuccessResponse(kind, result)
                      ELSE [status |-> 500, success |-> FALSE, code |-> Absent,
                            explanation |-> Absent, error |-> UNEXPECTED_ERROR]
       ELSE /\ response' = SuccessResponse(kind, result)
            /\ UNCHANGED saved_prompts
    /\ UNCHANGED <<language, response_text, nfrag, code_part, explanation_part,
                   strategy_used, kind, OPENAI_API_KEY, user_id, project_id, e,
                   result, prompt_logs, sink>>
    /\ UNCHANGED <<cvars, avars>>

NextService ==
    \/ CallService
    \/ UpstreamReturn
    \/ UpstreamRaise
    \/ HandleCompletion
    \/ HandleError
    \/ RouteRespond

SpecService == InitService /\ [][NextService]_vars

\* Requests whose upstream call raises, every exception considered.
InitClassify ==
    /\ InitService
    /\ language = PYTHON
    /\ OPENAI_API_KEY = "sk-1"
    /\ user_id = "None"
    /\ project_id = "None"

NextClassify == CallService \/ UpstreamRaiseAny \/ HandleError

SpecClassify == InitClassify /\ [][NextClassify]_vars

----------------------------------------------------------------------------
(* The state machine of the cached client: request threads of the Flask
   server (run.py:20) calling get_client and reset_client, one read or
   write of the global _client per step. *)

\* The requests that use the client: generate_code and explain_code_route
\* call get_client, test_api_key calls reset_client and then get_client.
RequestOps == {"generate", "explain", "test_api_key"}

InitClient ==
    /\ language = PYTHON
    /\ response_text = <<>>
    /\ nfrag = 0
    /\ pc = "threads"
    /\ code_part = None
    /\ explanation_part = None
    /\ strategy_used = "none"
    /\ kind = "none"
    /\ OPENAI_API_KEY = "sk-1"
    /\ user_id = "None"
    /\ project_id = "None"
    /\ e = NoException
    /\ result = NoResult
    /\ prompt_logs = <<>>
    /\ sink = "unused"
    /\ saved_prompts = <<>>
    /\ response = NoHttpResponse
    /\ ClientIdle
    /\ AppIdle

\* main.py lines 77, 145, 258: a request arrives on thread t and reaches
\* its first call into the client module
StartRequest(t) ==
    /\ threads[t].pc = "idle"
    /\ \E op \in RequestOps :
          threads' = [threads EXCEPT
                         ![t].op = op,
                         ![t].pc = IF op = "test_api_key" THEN "reset_client"
                                   ELSE "get_client"]
    /\ UNCHANGED <<_client, clients>>
    /\ UNCHANGED <<pvars, svars, avars>>

\* lines 47-54: reset_client; main.py lines 148-154: test_api_key goes on
\* to get_client when a key is configured
ResetClient(t) ==
    /\ threads[t].pc = "reset_client"
    /\ _client' = NoClient
    /\ threads' = [threads EXCEPT
                      ![t].pc = IF OPENAI_API_KEY = "" THEN "done"
                                ELSE "get_client"]
    /\ UNCHANGED clients
    /\ UNCHANGED <<pvars, svars, avars>>

\* lines 34-38: api_key = Config.OPENAI_API_KEY; ValueError when empty
ReadKey(t) ==
    /\ threads[t].pc = "get_client"
    /\ threads' = [threads EXCEPT
                      ![t].api_key = OPENAI_API_KEY,
                      ![t].pc = IF OPENAI_API_KEY = "" THEN "done"
                                ELSE "is_none",
                      ![t].outcome = IF OPENAI_API_KEY = "" THEN "ValueError"
                                     ELSE "none"]
    /\ UNCHANGED <<_client, clients>>
    /\ UNCHANGED <<pvars, svars, avars>>

\* line 40, left operand: _client is None
CheckNone(t) ==
    /\ threads[t].pc = "is_none"
    /\ threads' = [threads EXCEPT
                      ![t].pc = IF _client = NoClient THEN "construct"
                                ELSE "compare_key"]
    /\ UNCHANGED <<_client, clients>>
    /\ UNCHANGED <<pvars, svars, avars>>

\* getattr(c, '_api_key', None) for the value c of _client
RecordedKey(c) ==
    IF c = NoClient THEN "None" ELSE clients[c]._api_key

\* line 40, right operand: getattr(_client, '_api_key', None) != api_key,
\* _client read again
CompareKey(t) ==
    /\ threads[t].pc = "compare_key"
    /\ threads' = [threads EXCEPT
                      ![t].pc = IF RecordedKey(_client) # threads[t].api_key
                                THEN "construct" ELSE "return"]
    /\ UNCHANGED <<_client, clients>>
    /\ UNCHANGED <<pvars, svars, avars>>

\* line 41: _client = OpenAI(api_key=api_key); the new object has no
\* _api_key attribute yet
Construct(t) ==
    /\ threads[t].pc = "construct"
    /\ clients' = Append(clients,
                         [api_key |-> threads[t].api_key, _api_key |-> "None"])
    /\ _client' = Len(clients) + 1
    /\ threads' = [threads EXCEPT ![t].pc = "set_key"]
    /\ UNCHANGED <<pvars, svars, avars>>

\* line 43: _client._api_key = api_key, _client read again; AttributeError
\* when it is None
SetKey(t) ==
    /\ threads[t].pc = "set_key"
    /\ IF _client = NoClient
       THEN /\ threads' = [threads EXCEPT ![t].pc = "done",
                                          ![t].outcome = "AttributeError"]
            /\ UNCHANGED clients
       ELSE /\ clients' = [clients EXCEPT ![_client]._api_key = threads[t].api_key]
            /\ threads' = [threads EXCEPT ![t].pc = "return"]
    /\ UNCHANGED _client
    /\ UNCHANGED <<pvars, svars, avars>>

\* line 45: return _client, _client read again
ReturnClient(t) ==
    /\ threads[t].pc = "return"
    /\ threads' = [threads EXCEPT ![t].pc = "done",
                                  ![t].outcome = "returned",
                                  ![t].client = _client]
    /\ UNCHANGED <<_client, clients>>
    /\ UNCHANGED <<pvars, svars, avars>>

NextClient ==
    \E t \in Threads :
        \/ StartRequest(t)
        \/ ResetClient(t)
        \/ ReadKey(t)
        \/ CheckNone(t)
        \/ CompareKey(t)
        \/ Construct(t)
        \/ SetKey(t)
        \/ ReturnClient(t)

SpecClient == InitClient /\ [][NextClient]_vars

\* The keys the configuration can hold: none, and two different ones.
Keys == {"", "sk-1", "sk-2"}

\* config.py line 57: Config.OPENAI_API_KEY gets another value while the
\* server runs
ChangeKey ==
    /\ pc = "threads"
    /\ \E k \in Keys \ {OPENAI_API_KEY} : OPENAI_API_KEY' = k
    /\ UNCHANGED <<kind, user_id, project_id, e, result, prompt_logs, sink,
                   saved_prompts, response>>
    /\ UNCHANGED <<pvars, cvars, avars>>

\* The requests of NThreads threads under a configuration that changes.
InitClientKeys ==
    /\ language = PYTHON
    /\ response_text = <<>>
    /\ nfrag = 0
    /\ pc = "threads"
    /\ code_part = None
    /\ explanation_part = None
    /\ strategy_used = "none"
    /\ kind = "none"
    /\ OPENAI_API_KEY \in Keys
    /\ user_id = "None"
    /\ project_id = "None"
    /\ e = NoException
    /\ result = NoResult
    /\ prompt_logs = <<>>
    /\ sink = "unused"
    /\ saved_prompts = <<>>
    /\ response = NoHttpResponse
    /\ ClientIdle
    /\ AppIdle

NextClientKeys == NextClient \/ ChangeKey

SpecClientKeys == InitClientKeys /\ [][NextClientKeys]_vars

----------------------------------------------------------------------------
(* The accounts and the session: auth.py *)

\* Most accounts the users table holds.
MaxUsers == 2

\* auth.py line 71: the shortest password a registration accepts
MIN_PASSWORD_LENGTH == 6

\* What the forms are filled with.
Usernames == { <<>>, <<"a">>, <<"b", " ">> }

Emails == { <<>>, <<"x">>, <<"y">> }

Passwords == { <<>>, PASSWORD_5, PASSWORD_6, PASSWORD_7 }

\* The server is between two requests.
AtRest == pc \in {"web", "responded"}

\* A route of auth.py or projects.py is the request now: the locals of the
\* generation or explanation answered before are gone.
NoServiceRequest ==
    /\ pc' = "web"
    /\ kind' = "none"
    /\ user_id' = "None"
    /\ project_id' = "None"
    /\ response_text' = <<>>
    /\ code_part' = None
    /\ explanation_part' = None
    /\ strategy_used' = "none"
    /\ e' = NoException
    /\ result' = NoResult
    /\ sink' = "unused"
    /\ response' = NoHttpResponse
    /\ UNCHANGED <<language, nfrag, OPENAI_API_KEY, prompt_logs>>
    /\ UNCHANGED cvars

\* User.query.filter_by(username=username).first() and
\* User.query.filter_by(email=email).first(), auth.py lines 75, 79, 145
UsersNamed(username) == {u \in users : u.username = username}

UsersWithEmail(email) == {u \in users : u.email = email}

\* auth.py lines 52-80: the errors the registration form collects
RegistrationErrors(username, email, password, confirm_password) ==
    (IF username = <<>> THEN {"Username is required."} ELSE {})
    \cup (IF email = <<>> THEN {"Email is required."} ELSE {})
    \cup (IF password = <<>> THEN {"Password is required."} ELSE {})
    \cup (IF password # confirm_password
          THEN {"Passwords do not match."} ELSE {})
    \cup (IF Len(password) < MIN_PASSWORD_LENGTH
          THEN {"Password must be at least 6 characters long."} ELSE {})
    \cup (IF UsersNamed(username) # {}
          THEN {"Username already exists."} ELSE {})
    \cup (IF UsersWithEmail(email) # {}
          THEN {"Email already registered."} ELSE {})

\* auth.py lines 90-92: the row of the new account, its id given by the
\* database
NewUser(username, email, password) ==
    [id |-> UserIds[Cardinality(users) + 1], username |-> username,
     email |-> email, password_hash |-> generate_password_hash(password)]

\* The answer of a route: whether its body ran, the status, the category
\* of the message it flashed.
Reply(route, ran, status, flash) ==
    [route |-> route, ran |-> ran, status |-> status, flash |-> flash]

\* auth.py lines 37-123, POST: the form is checked; an accepted one creates
\* the account, the commit succeeding or failing, and logs its user in
Register ==
    /\ AtRest
    /\ \E f \in { g \in [username : Usernames, email : Emails,
                          password : Passwords, confirm_password : Passwords] :
                       g.confirm_password \in {g.password, PASSWORD_7} } :
         \E username \in {Strip(f.username)}, email \in {Strip(f.email)} :
           /\ form' = [NoForm EXCEPT !.username = f.username,
                                      !.password = f.password]
           /\ IF RegistrationErrors(username, email, f.password,
                                    f.confirm_password) # {}
              THEN /\ reply' = Reply("register", TRUE, 200, "error")
                   /\ UNCHANGED <<users, session>>
              ELSE /\ Cardinality(users) < MaxUsers
                   /\ \E committed \in BOOLEAN :
                        IF committed
                        THEN \E user \in {NewUser(username, email, f.password)} :
                               /\ users' = users \cup {user}
                               /\ session' = LoggedIn(session, user)
                               /\ reply' = Reply("register", TRUE, 302, "success")
                        ELSE /\ reply' = Reply("register", TRUE, 200, "error")
                             /\ UNCHANGED <<users, session>>
    /\ UNCHANGED projects
    /\ NoServiceRequest
    /\ UNCHANGED saved_prompts

\* Login accepting whatever password is given
PasswordValidAlways(user, password) == TRUE

\* auth.py lines 175-196: user.check_password(password) on the stored hash
PasswordValid(user, password) ==
    /\ user.password_hash # <<>>
    /\ check_password_hash(user.password_hash, password)

\* auth.py lines 126-222, POST: the user is looked up by name and the
\* password checked against the stored hash; only then is the session set
Login ==
    /\ AtRest
    /\ \E f \in [username : Usernames, password : Passwords] :
         \E username \in {Strip(f.username)} :
           /\ form' = [NoForm EXCEPT !.username = f.username,
                                      !.password = f.password]
           /\ IF username = <<>> \/ f.password = <<>>
              THEN /\ reply' = Reply("login", TRUE, 200, "error")
                   /\ UNCHANGED session
              ELSE IF UsersNamed(username) = {}
              THEN /\ reply' = Reply("login", TRUE, 200, "error")
                   /\ UNCHANGED session
              ELSE \E user \in UsersNamed(username) :
                     IF PasswordValid(user, f.password)
                     THEN /\ session' = LoggedIn(session, user)
                          /\ reply' = Reply("login", TRUE, 302, "success")
                     ELSE /\ reply' = Reply("login", TRUE, 200, "error")
                          /\ UNCHANGED session
    /\ UNCHANGED <<users, projects>>
    /\ NoServiceRequest
    /\ UNCHANGED saved_prompts

\* auth.py lines 225-238: session.clear()
Logout ==
    /\ AtRest
    /\ session' = NoSession
    /\ form' = NoForm
    /\ reply' = Reply("logout", TRUE, 302, "success")
    /\ UNCHANGED <<users, projects>>
    /\ NoServiceRequest
    /\ UNCHANGED saved_prompts

\* login_required letting every request through
LoginNotRequired(s) == TRUE

\* auth.py lines 26-33: the wrapper lets the route run when the session
\* has the key user_id
login_required(s) == s.user_id # "Absent"

\* auth.py lines 29-32: the answer of the wrapper to a session without user
Refused(route) == Reply(route, FALSE, 302, "warning")

----------------------------------------------------------------------------
(* The projects: projects.py *)

\* Most projects the projects table holds.
MaxProjects == 1

\* projects.py line 52: the longest project name
MAX_NAME_LENGTH == 100

\* The names the form is filled with: none, blanks, a name, one too long.
ProjectNames ==
    { <<>>, <<" ">>, <<"w">>, [i \in 1..(MAX_NAME_LENGTH + 1) |-> "n"] }

\* The project ids of the requests: those the table can hold and one more.
RequestProjectIds == {ProjectIds[i] : i \in 1..(MaxProjects + 1)}

\* The position of a project id among those the database gives.
IdIndex(pid) == CHOOSE i \in 1..Len(ProjectIds) : ProjectIds[i] = pid

\* The row id SQLite gives to the next project: one more than the largest
\* in the table.
NextProjectIndex ==
    IF projects = {} THEN 1
    ELSE 1 + CHOOSE i \in {IdIndex(p.id) : p \in projects} :
                 \A j \in {IdIndex(p.id) : p \in projects} : j <= i

\* ProjectsOf looking for the project under its id alone
ProjectsWithId(uid, pid) == {p \in projects : p.id = pid}

\* Project.query.filter_by(id=project_id, user_id=user_id).first(),
\* projects.py lines 106, 133, 178
ProjectsOf(uid, pid) == {p \in projects : p.id = pid /\ p.user_id = uid}

\* projects.py lines 16-30: the projects of the session's user are listed
ListProjects ==
    /\ AtRest
    /\ form' = NoForm
    /\ reply' = IF login_required(session)
                THEN Reply("list_projects", TRUE, 200, "none")
                ELSE Refused("list_projects")
    /\ UNCHANGED <<users, session, projects>>
    /\ NoServiceRequest
    /\ UNCHANGED saved_prompts

\* projects.py lines 33-89: a project of the session's user is created
\* under the name given, the commit succeeding or failing
CreateProject ==
    /\ AtRest
    /\ \E raw \in ProjectNames :
         \E project_name \in {Strip(raw)} :
           /\ form' = NoForm
           /\ IF ~login_required(session)
              THEN /\ reply' = Refused("create_project")
                   /\ UNCHANGED projects
              ELSE IF project_name = <<>> \/ Len(project_name) > MAX_NAME_LENGTH
              THEN /\ reply' = Reply("create_project", TRUE, 302, "error")
                   /\ UNCHANGED projects
              ELSE /\ NextProjectIndex <= MaxProjects
                   /\ \E committed \in BOOLEAN :
                        IF committed
                        THEN /\ projects' = projects \cup
                                    { [id |-> ProjectIds[NextProjectIndex],
                                       user_id |-> SessionGet(session, "user_id"),
                                       name |-> project_name] }
                             /\ reply' = Reply("create_project", TRUE, 302,
                                               "success")
                        ELSE /\ reply' = Reply("create_project", TRUE, 302,
                                               "error")
                             /\ UNCHANGED projects
    /\ UNCHANGED <<users, session>>
    /\ NoServiceRequest
    /\ UNCHANGED saved_prompts

\* projects.py lines 92-117: the project and its saved prompts are shown
\* to the session's user when the project is theirs
ProjectDetail ==
    /\ AtRest
    /\ \E pid \in RequestProjectIds :
           /\ form' = [NoForm EXCEPT !.project_id = pid]
           /\ reply' =
                  IF ~login_required(session)
                  THEN Refused("project_detail")
                  ELSE IF ProjectsOf(SessionGet(session, "user_id"), pid) = {}
                  THEN Reply("project_detail", TRUE, 302, "error")
                  ELSE Reply("project_detail", TRUE, 200, "none")
    /\ UNCHANGED <<users, session, projects>>
    /\ NoServiceRequest
    /\ UNCHANGED saved_prompts

\* The delete leaving the saved prompts in their table
CascadeNone(prompts, pid) == prompts

\* models.py line 105, cascade='all, delete-orphan': db.session.delete of a
\* project deletes the saved prompts of the project
Cascade(prompts, pid) == SelectSeq(prompts, LAMBDA sp : sp.project_id # pid)

\* projects.py lines 120-158: the project is deleted with its saved
\* prompts when it is the session user's, the commit succeeding or failing
DeleteProject ==
    /\ AtRest
    /\ \E pid \in RequestProjectIds :
           /\ form' = [NoForm EXCEPT !.project_id = pid]
           /\ IF ~login_required(session)
              THEN /\ reply' = Refused("delete_project")
                   /\ UNCHANGED <<projects, saved_prompts>>
              ELSE IF ProjectsOf(SessionGet(session, "user_id"), pid) = {}
              THEN /\ reply' = Reply("delete_project", TRUE, 302, "error")
                   /\ UNCHANGED <<projects, saved_prompts>>
              ELSE \E committed \in BOOLEAN :
                     IF committed
                     THEN /\ projects' = projects \
                                 ProjectsOf(SessionGet(session, "user_id"), pid)
                          /\ saved_prompts' = Cascade(saved_prompts, pid)
                          /\ reply' = Reply("delete_project", TRUE, 302,
                                            "success")
                     ELSE /\ reply' = Reply("delete_project", TRUE, 302, "error")
                          /\ UNCHANGED <<projects, saved_prompts>>
    /\ UNCHANGED <<users, session>>
    /\ NoServiceRequest

\* projects.py lines 161-194: the project becomes the session's active
\* project when it is the session user's; otherwise the answer is 404
SetActiveProject ==
    /\ AtRest
    /\ \E pid \in RequestProjectIds :
           /\ form' = [NoForm EXCEPT !.project_id = pid]
           /\ IF ~login_required(session)
              THEN /\ reply' = Refused("set_active_project")
                   /\ UNCHANGED session
              ELSE IF ProjectsOf(SessionGet(session, "user_id"), pid) = {}
              THEN /\ reply' = Reply("set_active_project", TRUE, 404, "none")
                   /\ UNCHANGED session
              ELSE /\ session' = [session EXCEPT !.active_project_id = pid]
                   /\ reply' = Reply("set_active_project", TRUE, 200, "none")
    /\ UNCHANGED <<users, projects>>
    /\ NoServiceRequest
    /\ UNCHANGED saved_prompts

----------------------------------------------------------------------------
(* The accounts, the session and the projects of one browser *)

InitAuth ==
    /\ language = PYTHON
    /\ response_text = <<>>
    /\ nfrag = 0
    /\ pc = "web"
    /\ code_part = None
    /\ explanation_part = None
    /\ strategy_used = "none"
    /\ ServiceIdle
    /\ ClientIdle
    /\ AppIdle

NextAuth ==
    \/ Register
    \/ Login
    \/ Logout
    \/ ListProjects
    \/ CreateProject
    \/ SetActiveProject

SpecAuth == InitAuth /\ [][NextAuth]_vars

----------------------------------------------------------------------------
(* The projects and the saved prompts of two accounts *)

\* Most requests that reach the upstream call.
MaxRequests == 1

\* main.py lines 52-74 and 233-255: the next request for a generation or
\* an explanation arrives, from the browser's session; what the request
\* before it asked and was answered is gone
BeginRequest ==
    /\ AtRest
    /\ Len(prompt_logs) < MaxRequests
    /\ pc' = "request"
    /\ kind' \in {"generate", "explain"}
    /\ project_id' \in {"None"} \cup RequestProjectIds
    /\ user_id' = SessionGet(session, "user_id")
    /\ response_text' = <<>>
    /\ code_part' = None
    /\ explanation_part' = None
    /\ strategy_used' = "none"
    /\ e' = NoException
    /\ result' = NoResult
    /\ sink' = "unused"
    /\ response' = NoHttpResponse
    /\ form' = NoForm
    /\ reply' = NoReply
    /\ UNCHANGED <<language, nfrag, OPENAI_API_KEY, prompt_logs, saved_prompts>>
    /\ UNCHANGED <<users, session, projects>>
    /\ UNCHANGED cvars

\* lines 124-132 (or 418-424): the upstream call returns a completion with
\* both markers
UpstreamReturnMarked ==
    /\ pc = "calling"
    /\ response_text' = CODE_MARK \o <<"x">> \o EXPLANATION_MARK \o <<"y">>
    /\ pc' = "completion"
    /\ UNCHANGED <<language, nfrag, code_part, explanation_part, strategy_used>>
    /\ UNCHANGED <<svars, cvars, avars>>

InitProjects ==
    /\ language = PYTHON
    /\ response_text = <<>>
    /\ nfrag = 0
    /\ pc = "web"
    /\ code_part = None
    /\ explanation_part = None
    /\ strategy_used = "none"
    /\ kind = "none"
    /\ OPENAI_API_KEY = "sk-1"
    /\ user_id = "None"
    /\ project_id = "None"
    /\ e = NoException
    /\ result = NoResult
    /\ prompt_logs = <<>>
    /\ sink = "unused"
    /\ saved_prompts = <<>>
    /\ response = NoHttpResponse
    /\ ClientIdle
    /\ users = SeedUsers
    /\ session = NoSession
    /\ projects = {}
    /\ form = NoForm
    /\ reply = NoReply

NextProjects ==
    \/ Login
    \/ Logout
    \/ CreateProject
    \/ ProjectDetail
    \/ DeleteProject
    \/ SetActiveProject
    \/ BeginRequest
    \/ CallService
    \/ UpstreamReturnMarked
    \/ HandleCompletion
    \/ RouteRespond

SpecProjects == InitProjects /\ [][NextProjects]_vars

----------------------------------------------------------------------------
(* Vocabulary of the properties *)

Parsed == pc = "parsed"

BothMarkers ==
    Contains(response_text, CODE_MARK) /\ Contains(response_text, EXPLANATION_MARK)

AnyFence == Contains(response_text, FENCE)

AnyKeyword == \E kw \in code_keywords : Contains(response_text, kw)

\* The text before and after the first EXPLANATION: of the completion.
BeforeExplanation ==
    SubSeq(response_text, 1, Find(response_text, EXPLANATION_MARK) - 1)

AfterExplanation ==
    SubSeq(response_text,
           Find(response_text, EXPLANATION_MARK) + Len(EXPLANATION_MARK),
           Len(response_text))

\* s with its first occurrence of sub taken out
RemoveFirst(s, sub) ==
    LET i == Find(s, sub)
    IN  IF i = 0 THEN s
        ELSE SubSeq(s, 1, i - 1) \o SubSeq(s, i + Len(sub), Len(s))

IsSuffix(a, b) ==
    /\ Len(a) <= Len(b)
    /\ SubSeq(b, Len(b) - Len(a) + 1, Len(b)) = a

\* The segments of the completion between fence delimiters.
Segments == Split(response_text, FENCE)

\* Positions of the candidate fenced blocks (Python's odd indexes).
BlockPositions == {k \in 1..Len(Segments) : k % 2 = 0}

FencedCase == Parsed /\ ~BothMarkers /\ AnyFence

\* A block that opens with a language tag and a line break.
TagLine(block, lang) ==
    \E tag \in {lang, PYTHON, JAVASCRIPT, HTML, CSS} : StartsWith(block, tag \o NL)

\* A block that opens with the letters of a language tag.
TagLetters(block, lang) ==
    \E tag \in {lang, PYTHON, JAVASCRIPT, HTML, CSS} : StartsWith(block, tag)

\* The completion holds exactly one candidate fenced block.
OneBlock == FencedCase /\ Len(Segments) \in {2, 3}

TheBlock == Strip(Segments[2])

----------------------------------------------------------------------------
(* C1 *)

\* C1: the strategy applied is MarkerTags if the text holds both CODE: and
\* EXPLANATION:, otherwise FencedCodeBlock if it holds a fence, otherwise
\* KeywordHeuristic if it holds one of the nine keywords, otherwise PlainText.
C1_StrategyOrder ==
    Parsed =>
        /\ BothMarkers => strategy_used = "MarkerTags"
        /\ ~BothMarkers /\ AnyFence => strategy_used = "FencedCodeBlock"
        /\ ~BothMarkers /\ ~AnyFence /\ AnyKeyword => strategy_used = "KeywordHeuristic"
        /\ ~BothMarkers /\ ~AnyFence /\ ~AnyKeyword => strategy_used = "PlainText"

\* Markers and a fence together, parsed by MarkerTags.
C1_Witness ==
    /\ Parsed /\ BothMarkers /\ AnyFence
    /\ strategy_used = "MarkerTags"

----------------------------------------------------------------------------
(* C2 *)

\* C2: with both markers, the explanation is everything after the first
\* EXPLANATION:, trimmed; nothing after it is discarded.
C2_ExplanationKeepsAll ==
    Parsed /\ BothMarkers => explanation_part = Strip(AfterExplanation)

----------------------------------------------------------------------------
(* C3 *)

\* C3: with both markers, the code is the text before EXPLANATION: with only
\* the leading CODE: taken out, trimmed; a later CODE: stays in the code.
C3_OnlyLeadingCodeRemoved ==
    Parsed /\ BothMarkers =>
        code_part = Strip(RemoveFirst(BeforeExplanation, CODE_MARK))

----------------------------------------------------------------------------
(* C4 *)

\* C4: in PlainText the result has no code and the explanation is the whole
\* text; the empty text gives the empty explanation and no code.
C4_PlainTextIsExplanation ==
    Parsed /\ ~BothMarkers /\ ~AnyFence /\ ~AnyKeyword =>
        /\ code_part \in {None, <<>>}
        /\ explanation_part = response_text

----------------------------------------------------------------------------
(* C5 *)

\* C5: a fenced block that starts with the letters of a language tag but
\* goes on along the same line keeps its first line: the code is the block.
C5_TagNeedsLineBreak ==
    /\ OneBlock
    /\ TagLetters(TheBlock, language)
    /\ ~TagLine(LStrip(Segments[2]), language)
    => code_part = TheBlock

----------------------------------------------------------------------------
(* C6 *)

\* C6: a fenced block that does not begin with a language tag, with no code
\* candidate chosen before it, is the code, whole and trimmed.
C6_UntaggedBlockWhole ==
    OneBlock /\ ~TagLetters(TheBlock, language) => code_part = TheBlock

----------------------------------------------------------------------------
(* C7 *)

\* The completion is fence, tag, line break, content, fence, trailing text.
C7_Shape(tag) ==
    /\ StartsWith(response_text, FENCE \o tag \o NL)
    /\ Len(Split(SubSeq(response_text, Len(FENCE \o tag \o NL) + 1,
                        Len(response_text)), FENCE)) = 2

C7_Rest(tag) ==
    Split(SubSeq(response_text, Len(FENCE \o tag \o NL) + 1, Len(response_text)),
          FENCE)

\* C7: for fence + tag + line break + content + fence + trailing text, the
\* code is the content, trimmed, and the explanation the trailing text, trimmed.
C7_TaggedBlockAndTrailer ==
    \A tag \in {language, PYTHON, JAVASCRIPT, HTML, CSS} :
        Parsed /\ ~BothMarkers /\ C7_Shape(tag) =>
            /\ code_part = Strip(C7_Rest(tag)[1])
            /\ explanation_part = Strip(C7_Rest(tag)[2])

----------------------------------------------------------------------------
(* C8 *)

UntaggedOnly ==
    /\ FencedCase
    /\ \A k \in BlockPositions : ~TagLetters(Strip(Segments[k]), language)

NonBlankBlocks == {k \in BlockPositions : Strip(Segments[k]) # <<>>}

FirstNonBlank == CHOOSE k \in NonBlankBlocks : \A j \in NonBlankBlocks : k <= j

\* C8: when no fenced block begins with a language tag (the test of line
\* 160), the code is taken from the first fenced block that is non-empty once
\* trimmed: it is a non-empty suffix of that block, and a later untagged block
\* never replaces it; with every block blank there is no code.
C8_FirstUntaggedWins ==
    UntaggedOnly =>
        IF NonBlankBlocks = {}
        THEN code_part = <<>>
        ELSE /\ code_part # <<>>
             /\ IsSuffix(code_part, Strip(Segments[FirstNonBlank]))

\* Two different non-empty untagged blocks; the code is from the first.
C8_Witness ==
    /\ UntaggedOnly
    /\ \E j \in NonBlankBlocks :
          /\ j > FirstNonBlank
          /\ ~IsSuffix(code_part, Strip(Segments[j]))
    /\ IsSuffix(code_part, Strip(Segments[FirstNonBlank]))

----------------------------------------------------------------------------
(* C9 *)

\* C9: in FencedCodeBlock the explanation is the trimmed last segment when
\* the split yields more than two segments, the placeholder when it yields two.
C9_FencedExplanation ==
    FencedCase =>
        /\ Len(Segments) > 2 => explanation_part = Strip(Segments[Len(Segments)])
        /\ Len(Segments) = 2 => explanation_part = FENCE_PLACEHOLDER

\* A single fence delimiter followed by text: the placeholder, not the text.
C9_Witness ==
    /\ FencedCase
    /\ Len(Segments) = 2
    /\ Strip(Segments[2]) # <<>>
    /\ explanation_part = FENCE_PLACEHOLDER

----------------------------------------------------------------------------
(* C10 *)

\* C10: with no marker pair and no fence, a text holding one of the nine
\* keywords is the code, unchanged, and the explanation is the placeholder.
C10_KeywordWholeText ==
    Parsed /\ ~BothMarkers /\ ~AnyFence /\ AnyKeyword =>
        /\ code_part = response_text
        /\ explanation_part = KEYWORD_PLACEHOLDER

\* A keyword text with surrounding whitespace, kept as it is.
C10_Witness ==
    /\ Parsed /\ ~BothMarkers /\ ~AnyFence /\ AnyKeyword
    /\ Strip(response_text) # response_text
    /\ code_part = response_text

----------------------------------------------------------------------------
(* C11 *)

\* C11: no completion string makes the parser raise: every parse ends with
\* an explanation, never in the error path.
C11_ParseNeverRaises ==
    /\ pc # "raised"
    /\ Parsed => explanation_part # None /\ code_part # None

\* Markers in reverse order and an odd number of fences, parsed.
C11_Witness ==
    /\ Parsed /\ BothMarkers
    /\ Find(response_text, EXPLANATION_MARK) < Find(response_text, CODE_MARK)
    /\ Len(Segments) = 2
    /\ explanation_part # None

----------------------------------------------------------------------------
(* C12 *)

\* The completion CODE: + code + EXPLANATION: + explanation, split again.
Resplit ==
    ParseResult(CODE_MARK \o code_part \o EXPLANATION_MARK \o explanation_part,
                language)

\* C12: with both markers, the code and the explanation are trimmed, and
\* splitting CODE: + code + EXPLANATION: + explanation gives them back.
C12_ResplitStable ==
    Parsed /\ BothMarkers =>
        /\ Strip(code_part) = code_part
        /\ Strip(explanation_part) = explanation_part
        /\ Resplit.code_part = code_part
        /\ Resplit.explanation_part = explanation_part

----------------------------------------------------------------------------
(* Vocabulary of the properties of the service *)

\* The service function has returned its result.
Returned == pc \in {"returned", "responded"}

\* The upstream call raised e.
UpstreamRaised == e.response \in {"absent", "present"} /\ e.message # SINK_ERROR

\* The category a display message belongs to, read off its fixed text.
CategoryOf(error_message) ==
    CASE error_message = CONNECTION_MESSAGE -> "Connection"
      [] error_message = TIMEOUT_MESSAGE -> "Timeout"
      [] error_message = FORBIDDEN_MESSAGE -> "Forbidden"
      [] Head(error_message) = Head(QUOTA_HEAD) -> "QuotaExceeded"
      [] Head(error_message) = Head(RATE_LIMIT_HEAD) -> "RateLimited"
      [] Head(error_message) = Head(INVALID_KEY_HEAD) -> "InvalidApiKey"
      [] Head(error_message) = Head(GENERIC_HEAD) -> "Generic"
      [] OTHER -> "none"

\* The exception's message, lower-cased, contains one of the keywords.
MessageHas(keywords) ==
    LET lowered == Lower(e.message)
    IN  \E k \in keywords : Contains(lowered, k)

\* The exception's response carries the status code.
StatusIs(code) == e.response = "present" /\ e.status_code = code

\* The rows of the priority table.
RowConnection == MessageHas({KW_CONNECTION, KW_CONNECT, KW_NETWORK})

RowTimeout == MessageHas({KW_TIMEOUT, KW_TIMED_OUT})

Signal429 == StatusIs(429) \/ MessageHas({KW_429})

SignalQuota ==
    \/ e.response = "present" /\ e.body = "type_quota"
    \/ MessageHas({INSUFFICIENT_QUOTA})

RowInvalidApiKey ==
    StatusIs(401) \/ MessageHas({KW_401, KW_UNAUTHORIZED, KW_INVALID_API_KEY})

RowForbidden ==
    StatusIs(403) \/ MessageHas({KW_403, KW_FORBIDDEN, KW_PERMISSION})

FirstMatchingRow ==
    IF RowConnection THEN "Connection"
    ELSE IF RowTimeout THEN "Timeout"
    ELSE IF Signal429 /\ SignalQuota THEN "QuotaExceeded"
    ELSE IF Signal429 THEN "RateLimited"
    ELSE IF RowInvalidApiKey THEN "InvalidApiKey"
    ELSE IF RowForbidden THEN "Forbidden"
    ELSE "Generic"

----------------------------------------------------------------------------
(* C13 *)

\* C13: an Explain request produces no code anywhere: the result has no
\* code key, every log entry and every saved prompt has a null output code,
\* and the JSON response has no code key.
C13_ExplainNeverProducesCode ==
    kind = "explain" =>
        /\ result.code = Absent
        /\ \A i \in 1..Len(prompt_logs) : prompt_logs[i].output_code = None
        /\ \A i \in 1..Len(saved_prompts) : saved_prompts[i].output_code = None
        /\ response.code = Absent

\* An explanation whose completion holds a fenced block, logged, saved and
\* answered.
C13_Witness ==
    /\ kind = "explain" /\ pc = "responded"
    /\ Contains(response_text, FENCE)
    /\ Len(prompt_logs) = 1 /\ Len(saved_prompts) = 1
    /\ response.success /\ response.explanation = response_text

----------------------------------------------------------------------------
(* C14 *)

\* C14: for every upstream failure the category of the display message is
\* the first matching row of the priority table, keywords being looked for
\* in the lower-cased message, in both service functions.
C14_FirstMatchingRow ==
    Returned /\ UpstreamRaised =>
        CategoryOf(result.error) = FirstMatchingRow

\* A message with a timeout keyword and a connection keyword (in capitals)
\* and a response of status 401: Connection.
C14_Witness ==
    /\ Returned /\ UpstreamRaised
    /\ RowConnection /\ RowTimeout /\ StatusIs(401)
    /\ ~Contains(e.message, KW_CONNECT) /\ ~Contains(e.message, KW_NETWORK)
    /\ CategoryOf(result.error) = "Connection"

----------------------------------------------------------------------------
(* C15 *)

\* C15: without a Connection or Timeout keyword, the category is
\* QuotaExceeded exactly when a 429 signal comes with an insufficient_quota
\* signal, and RateLimited exactly when a 429 signal comes without one.
C15_QuotaNeeds429 ==
    Returned /\ UpstreamRaised /\ ~RowConnection /\ ~RowTimeout =>
        /\ CategoryOf(result.error) = "QuotaExceeded" <=> Signal429 /\ SignalQuota
        /\ CategoryOf(result.error) = "RateLimited" <=> Signal429 /\ ~SignalQuota

\* Status 429 and error type insufficient_quota, the message silent on
\* both: QuotaExceeded.
C15_Witness ==
    /\ Returned /\ UpstreamRaised /\ ~RowConnection /\ ~RowTimeout
    /\ StatusIs(429) /\ e.body = "type_quota"
    /\ ~MessageHas({KW_429, INSUFFICIENT_QUOTA})
    /\ CategoryOf(result.error) = "QuotaExceeded"

----------------------------------------------------------------------------
(* C16 *)

\* C16: a failure matching none of rows 1 to 6 is Generic and its display
\* message contains the raw message as raised.
C16_GenericEmbedsRawMessage ==
    Returned /\ UpstreamRaised /\ FirstMatchingRow = "Generic" =>
        /\ CategoryOf(result.error) = "Generic"
        /\ result.error = GENERIC_HEAD \o e.message \o GENERIC_TAIL
        /\ Contains(result.error, e.message)

\* "Bad request" with status 418.
C16_Witness ==
    /\ Returned /\ UpstreamRaised
    /\ e.message = <<"B", "a", "d", " ", "r", "e", "q", "u", "e", "s", "t">>
    /\ StatusIs(418)
    /\ CategoryOf(result.error) = "Generic"

----------------------------------------------------------------------------
(* C17 *)

----------------------------------------------------------------------------
(* C18 *)

\* The result the service function returns when the write succeeds.
ResultWhenWritten ==
    IF UpstreamRaised
    THEN ErrorResult(kind, Classified(kind, e).error_message)
    ELSE IF kind = "generate"
         THEN GenerateResult(ParseResult(response_text, language))
         ELSE ExplainResult(response_text)

\* C18: when the write of the log entry fails, on the success path or on
\* the error path, the result returned is the one returned when the write
\* succeeds.
C18_SinkFailureKeepsResult ==
    /\ pc # "propagated"
    /\ Returned /\ sink = "failed" => result = ResultWhenWritten

\* A generation with code whose log entry could not be written.
C18_Witness ==
    /\ Returned /\ sink = "failed" /\ ~UpstreamRaised
    /\ kind = "generate" /\ result.success
    /\ result.code = <<"x">>

----------------------------------------------------------------------------
(* C19 *)

\* C19: on every return path the service function has handed exactly one
\* log entry to the database, its success flag the one of the result.
C19_OneLogEntryPerRequest ==
    Returned =>
        /\ Len(prompt_logs) = 1
        /\ prompt_logs[1].success = result.success

----------------------------------------------------------------------------
(* C20 *)

\* C20: with a key configured, under every interleaving of requests, no
\* call of get_client raises and none returns a null client.
C20_GetClientSafeConcurrently ==
    \A t \in Threads :
        threads[t].pc = "done" =>
            /\ threads[t].outcome = "returned"
            /\ threads[t].client # NoClient

----------------------------------------------------------------------------
(* C21 *)

\* C21: with no key configured the service function makes no upstream
\* call and raises nothing; it returns success false with the message of
\* the ValueError, and the route answers 500 with that message as error.
C21_MissingKeyIsCaught ==
    OPENAI_API_KEY = "" =>
        /\ pc \in {"request", "returned", "responded"}
        /\ response_text = <<>> /\ e = NoException
        /\ Returned =>
              /\ ~result.success
              /\ result.explanation = KEY_NOT_CONFIGURED
        /\ pc = "responded" =>
              /\ response.status = 500
              /\ ~response.success
              /\ response.error = KEY_NOT_CONFIGURED

\* An explanation request answered 500 for want of a key.
C21_Witness ==
    /\ OPENAI_API_KEY = "" /\ kind = "explain" /\ pc = "responded"
    /\ response.status = 500
    /\ response.error = KEY_NOT_CONFIGURED

----------------------------------------------------------------------------
(* C27 *)

\* C27: the two copies of the error classifier are equivalent: for every
\* upstream failure, the extraction and the chain of
\* generate_code_from_description and those of explain_code choose the same
\* category and build the same display message, and neither raises.
C27_ClassifierCopiesAgree ==
    UpstreamRaised =>
        /\ Classified("generate", e) = Classified("explain", e)
        /\ ExtractionRaised("generate", e) = ExtractionRaised("explain", e)
        /\ Returned /\ kind = "explain" =>
              result.error = Classified("generate", e).error_message

\* An explanation request failing with status 429 and error type
\* insufficient_quota, the message in capitals: both copies say
\* QuotaExceeded.
C27_Witness ==
    /\ Returned /\ UpstreamRaised /\ kind = "explain"
    /\ StatusIs(429) /\ e.body = "type_quota"
    /\ e.message # Lower(e.message)
    /\ Classified("generate", e).category = "QuotaExceeded"
    /\ result.error = QUOTA_HEAD \o e.message \o QUOTA_TAIL

----------------------------------------------------------------------------
(* C29 *)

\* C29: the display message of a Connection, a Timeout or a Forbidden
\* failure, as the service returns it and as the route answers it, is the
\* fixed text of its category, whatever the raw message, the status code
\* and the error body: two failures of one of these categories get
\* identical messages and nothing of the raw message reaches the user.
C29_FixedMessagesHideRawMessage ==
    Returned /\ UpstreamRaised =>
        /\ FirstMatchingRow = "Connection" =>
              /\ result.error = CONNECTION_MESSAGE
              /\ FailureResponse(result).error = CONNECTION_MESSAGE
        /\ FirstMatchingRow = "Timeout" =>
              /\ result.error = TIMEOUT_MESSAGE
              /\ FailureResponse(result).error = TIMEOUT_MESSAGE
        /\ FirstMatchingRow = "Forbidden" =>
              /\ result.error = FORBIDDEN_MESSAGE
              /\ FailureResponse(result).error = FORBIDDEN_MESSAGE
        /\ FirstMatchingRow \in {"Connection", "Timeout", "Forbidden"} =>
              /\ result.explanation = result.error
              /\ e.message # <<>> =>
                    ~Contains(FailureResponse(result).error, e.message)

\* A Forbidden failure known by the word in its message, with a response
\* of another status and an error type.
C29_Witness ==
    /\ Returned /\ UpstreamRaised
    /\ FirstMatchingRow = "Forbidden"
    /\ MessageHas({KW_FORBIDDEN}) /\ StatusIs(418) /\ e.body = "type_other"
    /\ FailureResponse(result).error = FORBIDDEN_MESSAGE

----------------------------------------------------------------------------
(* C28 *)

\* The fenced blocks that begin with a language tag (the test of line 160).
TaggedBlocks ==
    {k \in BlockPositions : TagLetters(Strip(Segments[k]), language)}

LastTagged == CHOOSE k \in TaggedBlocks : \A j \in TaggedBlocks : j <= k

\* What a tagged block gives as code: what follows its first line, trimmed,
\* or the block itself when it is a single line.
CodeOfTagged(block) ==
    IF Contains(block, NL)
    THEN Strip(SubSeq(block, Find(block, NL) + 1, Len(block)))
    ELSE block

\* C28: in FencedCodeBlock the code comes from the last fenced block that
\* begins with a language tag, whatever earlier blocks, tagged or untagged,
\* gave; when, with several blocks, that block is the final segment of the
\* split, it is the explanation as well.
C28_LastTaggedBlockWins ==
    FencedCase /\ TaggedBlocks # {} =>
        /\ code_part # <<>>
        /\ code_part = CodeOfTagged(Strip(Segments[LastTagged]))
        /\ Len(Segments) >= 4 /\ LastTagged = Len(Segments) =>
              explanation_part = Strip(Segments[LastTagged])

\* Three fence delimiters: a tagged block, then a final segment with another
\* tag and other content, which is the code and the explanation.
C28_Witness ==
    /\ FencedCase
    /\ Len(Segments) = 4
    /\ TaggedBlocks = {2, 4}
    /\ CodeOfTagged(Strip(Segments[2])) # CodeOfTagged(Strip(Segments[4]))
    /\ code_part = CodeOfTagged(Strip(Segments[4]))
    /\ explanation_part = Strip(Segments[4])

----------------------------------------------------------------------------
(* C23 *)

\* C23: a failed service result is answered 500 and nothing is saved; a
\* successful one is answered 200 with the code and the explanation of the
\* result, whether or not the saved prompt could be written.
C23_SaveNeverFailsRequest ==
    pc = "responded" =>
        IF ~result.success
        THEN /\ response.status = 500 /\ ~response.success
             /\ saved_prompts = <<>>
        ELSE /\ response.status = 200 /\ response.success
             /\ response.explanation = result.explanation
             /\ kind = "generate" => response.code = result.code
             /\ Len(saved_prompts) <= 1

\* A generation for a project of the session's user whose save failed:
\* nothing is saved and the answer carries the code.
C23_Witness ==
    /\ pc = "responded" /\ kind = "generate" /\ result.success
    /\ user_id = "u1" /\ project_id = "p1"
    /\ saved_prompts = <<>>
    /\ response.status = 200 /\ response.code = <<"x">>
    /\ response.explanation = <<"y">>

----------------------------------------------------------------------------
(* C26 *)

\* The routes of projects.py, all wrapped in login_required.
ProtectedRoutes ==
    {"list_projects", "create_project", "project_detail", "delete_project",
     "set_active_project"}

\* The account the form just submitted names with its right password.
Authenticated(accounts) ==
    {u \in accounts :
        /\ u.username = Strip(form'.username)
        /\ u.password_hash = generate_password_hash(form'.password)}

\* The session's user is an account, under its own name.
SessionUserExists ==
    session.user_id # "Absent" =>
        \E u \in users : u.id = session.user_id /\ u.username = session.username

C26_Step ==
    /\ session'.user_id # "Absent" /\ session'.user_id # session.user_id =>
          \/ /\ reply'.route = "register"
             /\ \E u \in Authenticated(users' \ users) :
                    u.id = session'.user_id
          \/ /\ reply'.route = "login"
             /\ \E u \in Authenticated(users) : u.id = session'.user_id
    /\ reply'.route = "login" /\ Authenticated(users) = {} => session' = session
    /\ reply'.route = "register" /\ users' = users => session' = session
    /\ reply'.route = "logout" => session' = NoSession
    /\ reply'.route \in ProtectedRoutes /\ reply'.ran =>
          session.user_id # "Absent"
    /\ SessionUserExists'

----------------------------------------------------------------------------
(* C22 *)

\* The request's project is a project of the user whose session sent it.
RequesterOwnsProject ==
    /\ user_id # "None"
    /\ user_id = SessionGet(session, "user_id")
    /\ \E p \in projects : p.id = project_id /\ p.user_id = user_id

C22_Step ==
    /\ Len(saved_prompts') > Len(saved_prompts) =>
          /\ saved_prompts' = Append(saved_prompts, Last(saved_prompts'))
          /\ Last(saved_prompts').project_id = project_id
          /\ RequesterOwnsProject
    /\ pc = "returned" /\ pc' = "responded" /\ result.success
       /\ ~RequesterOwnsProject =>
          /\ saved_prompts' = saved_prompts
          /\ response'.status = 200 /\ response'.success
          /\ response'.explanation = result.explanation
          /\ kind = "generate" => response'.code = result.code

\* C22: whatever the accounts, projects and saved prompts are, a saved
\* prompt is added only by a request whose session user owns the project
\* the request names; a successful request that is anonymous or names a
\* project that does not exist or is another user's is answered with its
\* result and saves nothing.
C22_SavedOnlyToOwnProject == [][C22_Step]_vars

\* An explanation asked by the second account for the project of the
\* first: answered, nothing saved.
C22_Witness ==
    /\ pc = "responded" /\ kind = "explain"
    /\ user_id = "u2" /\ project_id = "p1"
    /\ \E p \in projects : p.id = "p1" /\ p.user_id = "u1"
    /\ response.status = 200 /\ response.explanation # <<>>
    /\ saved_prompts = <<>>

----------------------------------------------------------------------------
(* C24 *)

\* The routes of projects.py that take a project id.
ProjectRoutes == {"project_detail", "delete_project", "set_active_project"}

C24_Step ==
    /\ pc' = "web" /\ reply'.route \in ProjectRoutes
    /\ ~\E p \in projects :
            p.id = form'.project_id /\ p.user_id = session.user_id
    => /\ projects' = projects
       /\ saved_prompts' = saved_prompts
       /\ session' = session
       /\ reply'.status # 200 /\ reply'.flash # "success"
       /\ reply'.flash \in {"error", "warning"} \/ reply'.status = 404

\* C24: the detail, delete and set-active routes, asked for a project that
\* does not exist or is not the session user's, leave the projects, the
\* saved prompts and the session as they were and report an error.
C24_ProjectIsolation == [][C24_Step]_vars

\* The second account asked to delete the project of the first, which
\* holds a saved prompt: refused, the project and its prompt are there.
C24_Witness ==
    /\ reply = Reply("delete_project", TRUE, 302, "error")
    /\ form.project_id = "p1"
    /\ session.user_id = "u2"
    /\ \E p \in projects : p.id = "p1" /\ p.user_id = "u1"
    /\ Len(saved_prompts) = 1 /\ saved_prompts[1].project_id = "p1"

----------------------------------------------------------------------------
(* C25 *)

\* C25: every saved prompt refers to a project of the projects table; in
\* particular none of a project just deleted remains.
C25_SavedPromptsHaveProject ==
    \A i \in 1..Len(saved_prompts) :
        \E p \in projects : p.id = saved_prompts[i].project_id

\* The session's user, whose generation was logged, has deleted the only
\* project: no saved prompt is left.
C25_Witness ==
    /\ reply = Reply("delete_project", TRUE, 302, "success")
    /\ form.project_id = "p1"
    /\ projects = {}
    /\ Len(prompt_logs) = 1 /\ prompt_logs[1].success
    /\ prompt_logs[1].user_id = session.user_id
    /\ saved_prompts = <<>>

----------------------------------------------------------------------------
(* C30 *)

\* No call of get_client or reset_client is under way.
NoCallUnderWay == \A t \in Threads : threads[t].pc \in {"idle", "done"}

\* C30: once the calls of get_client and reset_client are over, whatever
\* their interleaving and the changes of the configured key, the key
\* recorded on the cached client is the key it was constructed with, and
\* the client a call returned was constructed with the key the call read.
C30_CachedClientKeyMatches ==
    /\ NoCallUnderWay /\ _client # NoClient =>
          clients[_client]._api_key = clients[_client].api_key
    /\ \A t \in Threads :
          /\ threads[t].pc = "done" /\ threads[t].outcome = "returned"
          /\ threads[t].client # NoClient
          => clients[threads[t].client].api_key = threads[t].api_key

====
